---- MODULE Spec2Model ----
(***************************************************************************)
(* Model of codooor/go-crud-tut (src/main.go): three operations on the     *)
(* "album" table of a MySQL database reached through database/sql:         *)
(*   albumsByArtist (FindByAttribute), albumByID (FindByKey) and           *)
(*   addAlbum (Insert), and the entry point main that runs them in order.  *)
(* The database is modelled by what the three SQL statements do to a table *)
(* with an AUTO_INCREMENT key; every database call may also fail.          *)
(***************************************************************************)
EXTENDS Integers, Sequences, FiniteSets, TLC

VARIABLES
    table,        \* rows of the album table: [id, title, artist, price]
    nextId,       \* the table's AUTO_INCREMENT counter
    openCursors,  \* *sql.Rows acquired by db.Query and not yet closed
    pc,           \* position of the single thread inside the operations
    arg,          \* arguments of the operation in progress
    rows,         \* albumsByArtist: the cursor (rows still to be fetched)
    albums,       \* albumsByArtist: the local slice
    result,       \* addAlbum: the sql.Result of db.Exec
    ret,          \* values returned by the last operation
    history,      \* history: <<[key, alb]>> of the addAlbum calls that returned a key
    tableAtCall,  \* history: the table when the operation in progress was called
    scanned,      \* history: rows the albumsByArtist call in progress has decoded
    mainpc,       \* position inside main ("caller" when another caller drives)
    exitStatus,   \* process exit status, meaningful once mainpc = "exited"
    invoked,      \* history: the steps main has invoked, in order
    succeeded,    \* history: the steps of main that returned without error
    failed        \* history: the steps of main that returned an error

vars == <<table, nextId, openCursors, pc, arg, rows, albums, result, ret,
          history, tableAtCall, scanned, mainpc, exitStatus, invoked, succeeded, failed>>

dbVars == <<table, nextId, openCursors>>
mainVars == <<mainpc, exitStatus, invoked, succeeded, failed>>

\* Largest number of rows the table is allowed to reach.
MaxRows == 3

-----------------------------------------------------------------------------
(* Values *)

JohnColtrane == "John Coltrane"
BettyCarter == "Betty Carter"
ModernSound == "The Modern Sound of Betty Carter"

\* Album values handed to addAlbum.  Price is a float32, named by its position
\* on the float32 grid.  One input carries a non-zero ID.
InputAlbums ==
    { [ID |-> 0, Title |-> "Blue Train", Artist |-> JohnColtrane, Price |-> 1],
      [ID |-> 1, Title |-> "Giant Steps", Artist |-> JohnColtrane, Price |-> 3],
      [ID |-> 0, Title |-> ModernSound, Artist |-> BettyCarter, Price |-> 2] }

\* The Album literal of main.
MainAlbum == [ID |-> 0, Title |-> ModernSound, Artist |-> BettyCarter, Price |-> 2]

\* The zero value of Album.
ZeroAlbum == [ID |-> 0, Title |-> "", Artist |-> "", Price |-> 0]

Names == {JohnColtrane, BettyCarter}
KeyArgs == 0..MaxRows

\* A []Album: the nil slice and an allocated slice of length 0 are different values.
NilSlice == [isNil |-> TRUE, elems |-> <<>>]
EmptySlice == [isNil |-> FALSE, elems |-> <<>>]

\* append(s, x)
SliceAppend(s, x) == [isNil |-> FALSE, elems |-> Append(s.elems, x)]

\* Errors.  NoErr is the nil error.
NoErr == [kind |-> "nil", op |-> "", name |-> "", id |-> 0, cause |-> ""]
DriverErr == "driver error"
ErrNoRows == "sql: no rows in result set"

\* fmt.Errorf("albumsByArtist %q: %v", name, err)
AlbumsByArtistErr(name, cause) ==
    [kind |-> "wrapped", op |-> "albumsByArtist", name |-> name, id |-> 0, cause |-> cause]

\* fmt.Errorf("addAlbum: %v", err)
AddAlbumErr(cause) ==
    [kind |-> "wrapped", op |-> "addAlbum", name |-> "", id |-> 0, cause |-> cause]

\* A variant of AlbumByIDErr that reports no error when no row matched.
AlbumByIDErrSwallowNoRows(id, cause) ==
    IF cause = ErrNoRows
    THEN NoErr
    ELSE [kind |-> "wrapped", op |-> "albumsById", name |-> "", id |-> id, cause |-> cause]

\* The error albumByID returns for a failed row.Scan.
AlbumByIDErr(id, cause) ==
    IF cause = ErrNoRows
    THEN [kind |-> "noSuchAlbum", op |-> "albumsById", name |-> "", id |-> id, cause |-> ""]
    ELSE [kind |-> "wrapped", op |-> "albumsById", name |-> "", id |-> id, cause |-> cause]

-----------------------------------------------------------------------------
(* float32 <-> column value *)

\* float64 grid points per float32 grid point at the same exponent: 2^(52-23).
Float64PerFloat32 == 2^29

\* database/sql hands a float32 argument to the driver as a float64.
Widen(p) == p * Float64PerFloat32

\* Scan into a *float32: the nearest float32, ties to even.
Narrow(v) ==
    LET q == v \div Float64PerFloat32
        r == v % Float64PerFloat32
    IN  IF 2 * r > Float64PerFloat32 \/ (2 * r = Float64PerFloat32 /\ q % 2 = 1)
        THEN q + 1
        ELSE q

-----------------------------------------------------------------------------
(* The SQL statements *)

\* A variant of SelectByArtist without the WHERE clause.
SelectAll(tbl, name) == tbl

\* SELECT * FROM album WHERE artist = ?
SelectByArtist(tbl, name) == {r \in tbl : r.artist = name}

\* SELECT * FROM album WHERE id = ?
SelectByID(tbl, id) == {r \in tbl : r.id = id}

\* A variant of InsertRow that binds artist and title in the wrong order.
InsertRowSwapped(id, alb) ==
    [id |-> id, title |-> alb.Artist, artist |-> alb.Title, price |-> Widen(alb.Price)]

\* The row INSERT INTO album (title, artist, price) VALUES (?, ?, ?) creates;
\* id is the AUTO_INCREMENT value.  alb.ID is no part of the statement.
InsertRow(id, alb) ==
    [id |-> id, title |-> alb.Title, artist |-> alb.Artist, price |-> Widen(alb.Price)]

\* A variant of ExecInsert that overwrites the table's rows (an UPDATE without WHERE).
ExecUpdateAll(tbl, id, alb) ==
    IF tbl = {} THEN {InsertRow(id, alb)}
    ELSE {[r EXCEPT !.title = alb.Title, !.artist = alb.Artist, !.price = Widen(alb.Price)] :
            r \in tbl}

\* The table after a successful db.Exec of the INSERT.
ExecInsert(tbl, id, alb) == tbl \cup {InsertRow(id, alb)}

\* rows.Scan(&alb.ID, &alb.Title, &alb.Artist, &alb.Price) of one row.
Scan(row) ==
    [ID |-> row.id, Title |-> row.title, Artist |-> row.artist, Price |-> Narrow(row.price)]

\* Scan that fails at destination k: the destinations before k are assigned.
ScanPartial(row, k) ==
    [ID     |-> IF k > 1 THEN row.id ELSE 0,
     Title  |-> IF k > 2 THEN row.title ELSE "",
     Artist |-> IF k > 3 THEN row.artist ELSE "",
     Price  |-> 0]

-----------------------------------------------------------------------------
(* Values of the locals and of the returns *)

NoArg == [name |-> "", id |-> 0, alb |-> ZeroAlbum]
NoRows == [open |-> FALSE, remaining |-> {}]
NoResult == [lastInsertId |-> 0]

Ret(op, albumsV, albV, idV, err) ==
    [op |-> op, albums |-> albumsV, alb |-> albV, id |-> idV, err |-> err]

NoRet == Ret("", NilSlice, ZeroAlbum, 0, NoErr)

\* A variant of InitAlbums that allocates: albums := make([]Album, 0).
InitAlbumsMade == EmptySlice

\* var albums []Album
InitAlbums == NilSlice

\* A variant of ScanErrorReturn that hands back the rows decoded so far.
ScanErrorReturnPartial(name, decoded) ==
    Ret("albumsByArtist", decoded, ZeroAlbum, 0, AlbumsByArtistErr(name, DriverErr))

\* return nil, fmt.Errorf(...) after a failed db.Query
QueryErrorReturn(name) ==
    Ret("albumsByArtist", NilSlice, ZeroAlbum, 0, AlbumsByArtistErr(name, DriverErr))

\* return nil, fmt.Errorf(...) after a failed rows.Scan
ScanErrorReturn(name, decoded) ==
    Ret("albumsByArtist", NilSlice, ZeroAlbum, 0, AlbumsByArtistErr(name, DriverErr))

\* return nil, fmt.Errorf(...) after rows.Err() reported an error
RowsErrReturn(name, decoded) ==
    Ret("albumsByArtist", NilSlice, ZeroAlbum, 0, AlbumsByArtistErr(name, DriverErr))

\* return albums, nil
AlbumsReturn(decoded) == Ret("albumsByArtist", decoded, ZeroAlbum, 0, NoErr)

\* A variant of ReturnedKey that echoes the ID field of the input record.
ReturnedInputID(alb, res) == alb.ID

\* id, err := result.LastInsertId(); return id, nil
ReturnedKey(alb, res) == res.lastInsertId

-----------------------------------------------------------------------------
(* albumsByArtist *)

\* Frame of a step that returns: the locals are gone, the caller sees r.
Returning(r) ==
    /\ pc' = "ret"
    /\ ret' = r
    /\ rows' = NoRows
    /\ albums' = NilSlice
    /\ result' = NoResult
    /\ arg' = arg

\* db.Query fails: no cursor was acquired and no Close was deferred.
aba_QueryFail ==
    /\ pc = "albumsByArtist"
    /\ Returning(QueryErrorReturn(arg.name))
    /\ UNCHANGED <<dbVars, history, tableAtCall, scanned, mainVars>>

\* db.Query succeeds: the cursor is acquired, rows.Close is deferred.
aba_QueryOk ==
    /\ pc = "albumsByArtist"
    /\ rows' = [open |-> TRUE, remaining |-> SelectByArtist(table, arg.name)]
    /\ openCursors' = openCursors + 1
    /\ albums' = InitAlbums
    /\ pc' = "aba_loop"
    /\ UNCHANGED <<table, nextId, arg, result, ret, history, tableAtCall, scanned, mainVars>>

\* rows.Next() yields a row (the order is the database's), Scan decodes it,
\* albums = append(albums, alb).
aba_ScanOk ==
    /\ pc = "aba_loop"
    /\ \E r \in rows.remaining :
        /\ rows' = [rows EXCEPT !.remaining = @ \ {r}]
        /\ albums' = SliceAppend(albums, Scan(r))
    /\ scanned' = scanned + 1
    /\ UNCHANGED <<dbVars, pc, arg, result, ret, history, tableAtCall, mainVars>>

\* A variant of aba_ScanFail that returns without closing the cursor
\* (rows.Close() called at the end of the function instead of deferred).
aba_ScanFailNoClose ==
    /\ pc = "aba_loop"
    /\ rows.remaining # {}
    /\ Returning(ScanErrorReturn(arg.name, albums))
    /\ UNCHANGED <<dbVars, history, tableAtCall, scanned, mainVars>>

\* rows.Next() yields a row and Scan fails; the deferred rows.Close() runs.
aba_ScanFail ==
    /\ pc = "aba_loop"
    /\ rows.remaining # {}
    /\ Returning(ScanErrorReturn(arg.name, albums))
    /\ openCursors' = openCursors - 1
    /\ UNCHANGED <<table, nextId, history, tableAtCall, scanned, mainVars>>

\* rows.Next() returns false because the iteration failed; rows.Err() is not nil.
aba_RowsErr ==
    /\ pc = "aba_loop"
    /\ Returning(RowsErrReturn(arg.name, albums))
    /\ openCursors' = openCursors - 1
    /\ UNCHANGED <<table, nextId, history, tableAtCall, scanned, mainVars>>

\* rows.Next() returns false at the end of the result set; rows.Err() is nil.
aba_Done ==
    /\ pc = "aba_loop"
    /\ rows.remaining = {}
    /\ Returning(AlbumsReturn(albums))
    /\ openCursors' = openCursors - 1
    /\ UNCHANGED <<table, nextId, history, tableAtCall, scanned, mainVars>>

-----------------------------------------------------------------------------
(* albumByID *)

\* db.QueryRow finds the row and row.Scan decodes it.
aid_Found ==
    /\ pc = "albumByID"
    /\ \E r \in SelectByID(table, arg.id) :
        Returning(Ret("albumByID", NilSlice, Scan(r), 0, NoErr))
    /\ UNCHANGED <<dbVars, history, tableAtCall, scanned, mainVars>>

\* No row has the id: row.Scan returns sql.ErrNoRows.
aid_NoRows ==
    /\ pc = "albumByID"
    /\ SelectByID(table, arg.id) = {}
    /\ Returning(Ret("albumByID", NilSlice, ZeroAlbum, 0, AlbumByIDErr(arg.id, ErrNoRows)))
    /\ UNCHANGED <<dbVars, history, tableAtCall, scanned, mainVars>>

\* The query fails: row.Scan returns the query's error, alb is untouched.
aid_QueryFail ==
    /\ pc = "albumByID"
    /\ Returning(Ret("albumByID", NilSlice, ZeroAlbum, 0, AlbumByIDErr(arg.id, DriverErr)))
    /\ UNCHANGED <<dbVars, history, tableAtCall, scanned, mainVars>>

\* The row is found and row.Scan fails at destination k.
aid_ScanFail ==
    /\ pc = "albumByID"
    /\ \E r \in SelectByID(table, arg.id), k \in 1..4 :
        Returning(Ret("albumByID", NilSlice, ScanPartial(r, k), 0,
                      AlbumByIDErr(arg.id, DriverErr)))
    /\ UNCHANGED <<dbVars, history, tableAtCall, scanned, mainVars>>

-----------------------------------------------------------------------------
(* addAlbum *)

\* db.Exec fails: nothing is inserted.
add_ExecFail ==
    /\ pc = "addAlbum"
    /\ Returning(Ret("addAlbum", NilSlice, ZeroAlbum, 0, AddAlbumErr(DriverErr)))
    /\ UNCHANGED <<dbVars, history, tableAtCall, scanned, mainVars>>

\* db.Exec succeeds: the row is in the table under the next AUTO_INCREMENT id.
add_ExecOk ==
    /\ pc = "addAlbum"
    /\ Cardinality(table) < MaxRows
    /\ table' = ExecInsert(table, nextId, arg.alb)
    /\ nextId' = nextId + 1
    /\ result' = [lastInsertId |-> nextId]
    /\ pc' = "add_lastid"
    /\ UNCHANGED <<openCursors, arg, rows, albums, ret, history, tableAtCall, scanned, mainVars>>

\* result.LastInsertId() fails.
add_LastInsertIdFail ==
    /\ pc = "add_lastid"
    /\ Returning(Ret("addAlbum", NilSlice, ZeroAlbum, 0, AddAlbumErr(DriverErr)))
    /\ UNCHANGED <<dbVars, history, tableAtCall, scanned, mainVars>>

\* result.LastInsertId() succeeds: the key is returned.
add_LastInsertIdOk ==
    /\ pc = "add_lastid"
    /\ Returning(Ret("addAlbum", NilSlice, ZeroAlbum, ReturnedKey(arg.alb, result), NoErr))
    /\ history' = Append(history, [key |-> ReturnedKey(arg.alb, result), alb |-> arg.alb])
    /\ UNCHANGED <<dbVars, tableAtCall, scanned, mainVars>>

OpStep ==
    \/ aba_QueryFail \/ aba_QueryOk \/ aba_ScanOk \/ aba_ScanFail \/ aba_RowsErr \/ aba_Done
    \/ aid_Found \/ aid_NoRows \/ aid_QueryFail \/ aid_ScanFail
    \/ add_ExecFail \/ add_ExecOk \/ add_LastInsertIdFail \/ add_LastInsertIdOk

-----------------------------------------------------------------------------
(* A caller that invokes the operations in any order and carries on after errors *)

Call(op, a) ==
    /\ pc = "idle"
    /\ pc' = op
    /\ arg' = a
    /\ tableAtCall' = table
    /\ scanned' = 0
    /\ UNCHANGED <<dbVars, rows, albums, result, ret, history>>

CallAlbumsByArtist ==
    /\ mainpc = "caller"
    /\ \E name \in Names : Call("albumsByArtist", [NoArg EXCEPT !.name = name])
    /\ UNCHANGED mainVars

CallAlbumByID ==
    /\ mainpc = "caller"
    /\ \E id \in KeyArgs : Call("albumByID", [NoArg EXCEPT !.id = id])
    /\ UNCHANGED mainVars

CallAddAlbum ==
    /\ mainpc = "caller"
    /\ Cardinality(table) < MaxRows
    /\ \E alb \in InputAlbums : Call("addAlbum", [NoArg EXCEPT !.alb = alb])
    /\ UNCHANGED mainVars

\* The caller takes the returned values and is ready for the next call.
CallerResume ==
    /\ mainpc = "caller"
    /\ pc = "ret"
    /\ pc' = "idle"
    /\ ret' = NoRet
    /\ arg' = NoArg
    /\ tableAtCall' = table
    /\ scanned' = 0
    /\ UNCHANGED <<dbVars, rows, albums, result, history, mainVars>>

Init ==
    /\ table = {}
    /\ nextId = 1
    /\ openCursors = 0
    /\ pc = "idle"
    /\ arg = NoArg
    /\ rows = NoRows
    /\ albums = NilSlice
    /\ result = NoResult
    /\ ret = NoRet
    /\ history = <<>>
    /\ tableAtCall = {}
    /\ scanned = 0
    /\ mainpc = "caller"
    /\ exitStatus = 0
    /\ invoked = <<>>
    /\ succeeded = {}
    /\ failed = {}

Next ==
    \/ CallAlbumsByArtist \/ CallAlbumByID \/ CallAddAlbum \/ CallerResume
    \/ OpStep

Spec == Init /\ [][Next]_vars

-----------------------------------------------------------------------------
(* main *)

\* The steps of main in program order.
MainOrder == <<"open", "ping", "albumsByArtist", "albumByID", "addAlbum">>

\* Where main goes after a step that succeeded; after addAlbum main returns.
Successor(step) ==
    CASE step = "open" -> "ping"
      [] step = "ping" -> "albumsByArtist"
      [] step = "albumsByArtist" -> "albumByID"
      [] step = "albumByID" -> "addAlbum"
      [] step = "addAlbum" -> "exited"

\* The error of sql.Open or db.Ping, handed to log.Fatal unwrapped.
ConnErr(step) == [kind |-> "raw", op |-> step, name |-> "", id |-> 0, cause |-> DriverErr]

\* The arguments main passes to each operation.
MainArg(step) ==
    CASE step = "albumsByArtist" -> [NoArg EXCEPT !.name = JohnColtrane]
      [] step = "albumByID" -> [NoArg EXCEPT !.id = 2]
      [] step = "addAlbum" -> [NoArg EXCEPT !.alb = MainAlbum]

\* A variant of MainContinues in which the result of db.Ping is not checked.
MainContinuesPingUnchecked(step, err) == step = "ping" \/ err = NoErr

\* if err != nil { log.Fatal(err) }: main goes on only without an error.
MainContinues(step, err) == err = NoErr

\* main after a step that returned err: log.Fatal exits with status 1,
\* falling off the end of main exits with status 0.
AfterStep(step, err) ==
    /\ succeeded' = IF err = NoErr THEN succeeded \cup {step} ELSE succeeded
    /\ failed' = IF err = NoErr THEN failed ELSE failed \cup {step}
    /\ IF MainContinues(step, err)
       THEN /\ mainpc' = Successor(step)
            /\ exitStatus' = 0
       ELSE /\ mainpc' = "exited"
            /\ exitStatus' = 1

\* db, err = sql.Open("mysql", cfg.FormatDSN())
main_Open ==
    /\ mainpc = "open"
    /\ invoked' = Append(invoked, "open")
    /\ \E err \in {NoErr, ConnErr("open")} : AfterStep("open", err)
    /\ UNCHANGED <<dbVars, pc, arg, rows, albums, result, ret, history, tableAtCall, scanned>>

\* pingErr := db.Ping()
main_Ping ==
    /\ mainpc = "ping"
    /\ invoked' = Append(invoked, "ping")
    /\ \E err \in {NoErr, ConnErr("ping")} : AfterStep("ping", err)
    /\ UNCHANGED <<dbVars, pc, arg, rows, albums, result, ret, history, tableAtCall, scanned>>

\* main calls the operation it has reached.
MainCall(step) ==
    /\ mainpc = step
    /\ Call(step, MainArg(step))
    /\ invoked' = Append(invoked, step)
    /\ UNCHANGED <<mainpc, exitStatus, succeeded, failed>>

\* main takes the operation's return values and checks err.
MainReturn(step) ==
    /\ mainpc = step
    /\ pc = "ret"
    /\ AfterStep(step, ret.err)
    /\ pc' = "idle"
    /\ ret' = NoRet
    /\ arg' = NoArg
    /\ scanned' = 0
    /\ UNCHANGED <<dbVars, rows, albums, result, history, tableAtCall, invoked>>

\* albums, err := albumsByArtist("John Coltrane")
main_CallAlbumsByArtist == MainCall("albumsByArtist")
main_AfterAlbumsByArtist == MainReturn("albumsByArtist")

\* alb, err := albumByID(2)
main_CallAlbumByID == MainCall("albumByID")
main_AfterAlbumByID == MainReturn("albumByID")

\* albID, err := addAlbum(Album{...})
main_CallAddAlbum == MainCall("addAlbum")
main_AfterAddAlbum == MainReturn("addAlbum")

\* The tables main can find: the rows earlier inserts left, fewer than MaxRows of them.
RECURSIVE TablesOfSize(_)
TablesOfSize(n) ==
    IF n = 0 THEN {{}}
    ELSE {ExecInsert(t, n, alb) : t \in TablesOfSize(n - 1), alb \in InputAlbums}

ExistingTables == UNION {TablesOfSize(n) : n \in 0..(MaxRows - 1)}

MainInit ==
    /\ table \in ExistingTables
    /\ nextId = Cardinality(table) + 1
    /\ openCursors = 0
    /\ pc = "idle"
    /\ arg = NoArg
    /\ rows = NoRows
    /\ albums = NilSlice
    /\ result = NoResult
    /\ ret = NoRet
    /\ history = <<>>
    /\ tableAtCall = table
    /\ scanned = 0
    /\ mainpc = "open"
    /\ exitStatus = 0
    /\ invoked = <<>>
    /\ succeeded = {}
    /\ failed = {}

MainNext ==
    \/ main_Open \/ main_Ping
    \/ main_CallAlbumsByArtist \/ main_AfterAlbumsByArtist
    \/ main_CallAlbumByID \/ main_AfterAlbumByID
    \/ main_CallAddAlbum \/ main_AfterAddAlbum
    \/ OpStep

MainSpec == MainInit /\ [][MainNext]_vars

-----------------------------------------------------------------------------
(* Properties *)

\* The operation op has just returned to its caller.
Returned(op) == pc = "ret" /\ ret.op = op

\* The rows of the table whose artist column equals name.
Matching(name) == {r \in table : r.artist = name}

HistoryKeys == {history[i].key : i \in 1..Len(history)}

IsPrefix(s, t) == Len(s) <= Len(t) /\ \A i \in 1..Len(s) : s[i] = t[i]

\* C1: a successful albumsByArtist(X) returns exactly the records of the table
\* whose artist equals X: every matching row is in the result exactly once with
\* its own id, title, artist and price, and every element of the result is a
\* matching row of the table, in whatever order the rows were inserted or fetched.
C1_FindByAttributeExact ==
    (Returned("albumsByArtist") /\ ret.err = NoErr) =>
        LET found == ret.albums.elems IN
        /\ \A r \in Matching(arg.name) :
            \E i \in 1..Len(found) :
                /\ found[i].ID = r.id
                /\ found[i].Title = r.title
                /\ found[i].Artist = r.artist
                /\ Widen(found[i].Price) = r.price
                /\ \A j \in 1..Len(found) : found[j].ID = r.id => j = i
        /\ \A i \in 1..Len(found) :
            /\ found[i].Artist = arg.name
            /\ \E r \in table : r.id = found[i].ID

\* C1 witness: a successful call returned two matching records while the table
\* also holds a record of another artist.
C1_Witness ==
    /\ Returned("albumsByArtist")
    /\ ret.err = NoErr
    /\ Len(ret.albums.elems) = 2
    /\ \E r \in table : r.artist # arg.name

\* C2: albumByID(k) for a key that matches no row never reports success: it
\* returns the "no such album" error naming k unless the query itself failed;
\* every other failure returns the generic wrapped error, a different error that
\* also names k, and "no such album" is returned only when no row matches.
C2_NotFoundIsError ==
    Returned("albumByID") =>
        /\ SelectByID(table, arg.id) = {} =>
            /\ ret.err # NoErr
            /\ ret.err.id = arg.id
            /\ ret.err.kind = "noSuchAlbum" \/ ret.err.cause = DriverErr
        /\ ret.err.kind = "noSuchAlbum" => SelectByID(table, arg.id) = {}
        /\ (ret.err # NoErr /\ ret.err.kind # "noSuchAlbum") =>
            /\ ret.err.kind = "wrapped"
            /\ ret.err.id = arg.id
            /\ ret.err.cause = DriverErr

\* C2 witness: albumByID returned "no such album" for a key absent from a
\* table that holds other rows.
C2_Witness ==
    /\ Returned("albumByID")
    /\ ret.err.kind = "noSuchAlbum"
    /\ arg.id > 0
    /\ table # {}

\* C3: the keys returned by successful addAlbum calls are pairwise distinct,
\* whatever the ID field of the input records; no two rows of the table share a
\* key, every returned key is the key of a row, and keys are only ever assigned
\* by the table's counter, which is past every key in use.
C3_KeysDistinct ==
    /\ \A i, j \in 1..Len(history) : i # j => history[i].key # history[j].key
    /\ \A r1, r2 \in table : r1.id = r2.id => r1 = r2
    /\ \A k \in HistoryKeys : \E r \in table : r.id = k
    /\ \A r \in table : 1 <= r.id /\ r.id < nextId
    /\ Returned("addAlbum") /\ ret.err = NoErr =>
        /\ ret.id = history[Len(history)].key
        /\ \A r \in tableAtCall : r.id # ret.id

\* C3 witness: two inserts whose input records both carry ID 1 have returned keys.
C3_Witness ==
    /\ Returned("addAlbum")
    /\ ret.err = NoErr
    /\ Len(history) >= 2
    /\ history[1].alb.ID = 1
    /\ history[2].alb.ID = 1

\* C4: after addAlbum(r) returned key k, albumByID(k) never reports "no such
\* album", fails only when the driver fails, and whenever it succeeds it returns
\* the record with ID k and the title, artist and price of r, at every later
\* call, whatever other calls came in between.
C4_RoundTrip ==
    Returned("albumByID") =>
        \A i \in 1..Len(history) :
            history[i].key = arg.id =>
                /\ ret.err.kind # "noSuchAlbum"
                /\ ret.err # NoErr => ret.err.cause = DriverErr
                /\ ret.err = NoErr =>
                    /\ ret.alb.ID = arg.id
                    /\ ret.alb.Title = history[i].alb.Title
                    /\ ret.alb.Artist = history[i].alb.Artist
                    /\ ret.alb.Price = history[i].alb.Price

\* C4 witness: albumByID succeeded on the key of the second insert, whose input
\* record carried another ID, after a third insert.
C4_Witness ==
    /\ Returned("albumByID")
    /\ ret.err = NoErr
    /\ Len(history) = 3
    /\ arg.id = history[2].key
    /\ history[2].alb.ID # arg.id

\* C5 as stated: albumsByArtist with no matching row returns no error and an
\* allocated empty slice, not the nil slice of the error paths.
C5_EmptyNotNil ==
    (Returned("albumsByArtist") /\ ret.err = NoErr /\ Matching(arg.name) = {}) =>
        /\ ret.albums.elems = <<>>
        /\ ret.albums.isNil = FALSE

\* C5 amended: albumsByArtist with no matching row returns no error and a
\* slice of length 0 that is the nil slice, the value the error paths return too.
C5_EmptyIsNil ==
    (Returned("albumsByArtist") /\ ret.err = NoErr /\ Matching(arg.name) = {}) =>
        /\ ret.albums.elems = <<>>
        /\ ret.albums.isNil = TRUE
        /\ ret.albums = QueryErrorReturn(arg.name).albums

\* C5 witness: a successful call with no matching row on a table that is not empty.
C5_Witness ==
    /\ Returned("albumsByArtist")
    /\ ret.err = NoErr
    /\ Matching(arg.name) = {}
    /\ table # {}

\* C6: main invokes open, ping, albumsByArtist, albumByID, addAlbum in this
\* order; a step is invoked only after every earlier step succeeded; a failed
\* step ends the process with status 1 with nothing invoked after it; no
\* operation runs unless open and ping succeeded, addAlbum runs only after both
\* finds succeeded, and status 0 is reached only when all five steps succeeded.
C6_MainSequential ==
    /\ IsPrefix(invoked, MainOrder)
    /\ \A i \in 1..(Len(invoked) - 1) : invoked[i] \in succeeded
    /\ failed # {} =>
        /\ mainpc = "exited"
        /\ exitStatus = 1
        /\ failed = {invoked[Len(invoked)]}
    /\ pc # "idle" => {"open", "ping"} \subseteq succeeded
    /\ pc \in {"addAlbum", "add_lastid"} => {"albumsByArtist", "albumByID"} \subseteq succeeded
    /\ mainpc = "exited" => pc = "idle"
    /\ (mainpc = "exited" /\ exitStatus = 0) =>
        /\ failed = {}
        /\ succeeded = {MainOrder[i] : i \in 1..Len(MainOrder)}
    /\ (mainpc = "exited" /\ exitStatus # 0) => failed # {}

\* C6 witness: albumByID failed and the process exited with status 1 before addAlbum.
C6_Witness ==
    /\ mainpc = "exited"
    /\ exitStatus = 1
    /\ failed = {"albumByID"}
    /\ Len(invoked) = 4

\* C7: an albumsByArtist that returns an error returns the nil slice, also when
\* rows were decoded before the failure; an addAlbum that returns an error
\* returns key 0, at the execute step and at the id-retrieval step.
C7_NoDataWithError ==
    /\ (Returned("albumsByArtist") /\ ret.err # NoErr) => ret.albums = NilSlice
    /\ (Returned("addAlbum") /\ ret.err # NoErr) => ret.id = 0

\* C7 witness: albumsByArtist failed after it had decoded two rows.
C7_Witness ==
    /\ Returned("albumsByArtist")
    /\ ret.err # NoErr
    /\ scanned = 2

\* C8: the cursor of albumsByArtist is open only inside the loop and is
\* released at every return; a failed query acquires none.
C8_CursorReleased ==
    /\ pc = "aba_loop" => openCursors = 1
    /\ pc # "aba_loop" => openCursors = 0

\* C8 witness: albumsByArtist returned an error in mid-iteration, one row
\* decoded and more to come, and no cursor is open.
C8_Witness ==
    /\ Returned("albumsByArtist")
    /\ ret.err # NoErr
    /\ scanned = 1
    /\ Cardinality(Matching(arg.name)) = 3
    /\ openCursors = 0

\* C9: an addAlbum that returns an error leaves the table as it was at the
\* call, and every row of the table was added by an addAlbum that returned a key.
C9_InsertAtomic ==
    /\ (Returned("addAlbum") /\ ret.err # NoErr) => table = tableAtCall
    /\ pc # "add_lastid" => \A r \in table : r.id \in HistoryKeys

\* C10: no step ever removes or changes a row; albumsByArtist and albumByID
\* leave the table as it is, at every step and at their return, with or without
\* an error; an addAlbum that returns a key has added exactly one row, under
\* that key, and changed no other.
C10_TableOnlyGrows ==
    [][ /\ table \subseteq table'
        /\ pc \in {"albumsByArtist", "aba_loop", "albumByID"} => table' = table
        /\ (pc # "ret" /\ pc' = "ret" /\ ret'.op \in {"albumsByArtist", "albumByID"}) =>
            table' = tableAtCall
        /\ (pc # "ret" /\ pc' = "ret" /\ ret'.op = "addAlbum" /\ ret'.err = NoErr) =>
            \E r \in table' :
                /\ r \notin tableAtCall
                /\ r.id = ret'.id
                /\ table' = tableAtCall \cup {r} ]_vars

\* C10 witness: the third successful insert has returned; the table holds the
\* rows it held at the call and one more.
C10_Witness ==
    /\ Returned("addAlbum")
    /\ ret.err = NoErr
    /\ Cardinality(table) = 3
    /\ Cardinality(tableAtCall) = 2
    /\ tableAtCall \subseteq table

====
